---- MODULE Spec2Model ----
(***************************************************************************)
(* Model of the cluster backup tool (src/main.go): the sanitizer           *)
(* (cleanResource and its helpers), the namespace x resource-kind walk of  *)
(* main, ZipDirectory and the derivation of the upload URL.                *)
(*                                                                         *)
(* Strings the program cuts or compares by prefix/suffix are sequences of  *)
(* tokens (characters, or indivisible name tokens); map[string]interface{} *)
(* is a TLA+ function whose values are tagged: MapV(f), StrV(s), NumV.     *)
(***************************************************************************)
EXTENDS Integers, Sequences, FiniteSets, TLC

VARIABLES
    pc,            \* position of main
    resource,      \* the *unstructured.Unstructured given to cleanResource (its Object)
    fetched,       \* the object as it was before the first cleanResource
    cleanCount,    \* number of cleanResource calls applied to resource
    nsEnv,         \* os.Getenv("NAMESPACES")
    parEnv,        \* os.Getenv("OCI_PAR_URL")
    currentDate,   \* time.Now().Format("2006-01-02")
    cluster,       \* the namespaced objects the API server holds
    namespaceList, \* namespaceList of main
    i,             \* index of the namespace loop (main.go:119)
    k,             \* index of the resource type loop (main.go:142)
    items,         \* resourceList.Items of the running list call
    j,             \* index of the item loop (main.go:169)
    dirs,          \* the directories of the file system
    files,         \* the regular files of the file system and their content
    calls,         \* the file system, API and HTTP calls made so far, in order
    logs,          \* the messages printed so far, in order
    failures,      \* number of calls the environment has made fail so far
    archive,       \* the ZIP file ZipDirectory writes
    requests       \* the HTTP requests sent

cleanVars == <<resource, fetched, cleanCount>>

walkVars ==
    <<nsEnv, parEnv, currentDate, cluster, namespaceList, i, k, items, j, dirs, files,
      calls, logs, failures, archive, requests>>

vars == <<pc, cleanVars, walkVars>>

\* cleanResource is applied at most this many times to one object
MaxCleans == 2

\* NAMESPACES holds at most this many comma-separated entries
MaxNamespaces == 1

\* the environment makes at most this many calls of one run fail
MaxFailures == 1

\* the walk uses this many of the resource types of the catalog
MaxKinds == 2

\* OCI_PAR_URL holds at most this many tokens
MaxUrlLen == 5

-----------------------------------------------------------------------------
(* Semi-structured values (interface{} holding JSON)                       *)

MapV(f) == [kind |-> "map", fields |-> f]
StrV(s) == [kind |-> "string", val |-> s]
NumV == [kind |-> "number", val |-> <<"0">>]

IsMap(v) == v.kind = "map"

EmptyMap == [x \in {} |-> NumV]

\* delete(m, key)
DeleteKey(m, key) == [x \in (DOMAIN m) \ {key} |-> m[x]]

\* m[key] = v
PutKey(m, key, v) == [x \in (DOMAIN m) \cup {key} |-> IF x = key THEN v ELSE m[x]]

-----------------------------------------------------------------------------
(* k8s.io/apimachinery unstructured helpers, as cleanResource uses them     *)

\* unstructured.RemoveNestedField(obj, fields...): walks the maps named by all
\* but the last field, returns unchanged when one is missing or no map, and
\* deletes the last field.
RECURSIVE RemoveNestedField(_, _)
RemoveNestedField(obj, fields) ==
    IF Len(fields) = 1 THEN DeleteKey(obj, fields[1])
    ELSE IF fields[1] \in DOMAIN obj /\ IsMap(obj[fields[1]])
         THEN [obj EXCEPT ![fields[1]] =
                  MapV(RemoveNestedField(obj[fields[1]].fields, Tail(fields)))]
         ELSE obj

\* unstructured.NestedFieldNoCopy(obj, fields...): [val, found, err]
RECURSIVE NestedFieldNoCopy(_, _)
NestedFieldNoCopy(obj, fields) ==
    IF fields[1] \notin DOMAIN obj THEN [found |-> FALSE, err |-> FALSE]
    ELSE IF Len(fields) = 1
         THEN [found |-> TRUE, err |-> FALSE, val |-> obj[fields[1]]]
         ELSE IF IsMap(obj[fields[1]])
              THEN NestedFieldNoCopy(obj[fields[1]].fields, Tail(fields))
              ELSE [found |-> FALSE, err |-> TRUE]

AllStrings(m) == \A x \in DOMAIN m : m[x].kind = "string"

\* the nil map[string]string
NilMap == [isNil |-> TRUE]

\* unstructured.NestedStringMap(obj, fields...) as GetAnnotations/GetLabels use
\* it: a copy of the map when the field is found, is a map and holds only
\* strings; nil otherwise.
NestedStringMap(obj, fields) ==
    LET r == NestedFieldNoCopy(obj, fields) IN
    IF r.found /\ IsMap(r.val) /\ AllStrings(r.val.fields)
    THEN [isNil |-> FALSE, m |-> r.val.fields]
    ELSE NilMap

\* setNestedFieldNoCopy(obj, value, fields...): creates the missing maps on the
\* way; leaves obj alone when a field on the way is no map.
RECURSIVE SetNestedField(_, _, _)
SetNestedField(obj, value, fields) ==
    IF Len(fields) = 1 THEN PutKey(obj, fields[1], value)
    ELSE IF fields[1] \in DOMAIN obj
         THEN IF IsMap(obj[fields[1]])
              THEN [obj EXCEPT ![fields[1]] =
                       MapV(SetNestedField(obj[fields[1]].fields, value, Tail(fields)))]
              ELSE obj
         ELSE PutKey(obj, fields[1],
                     MapV(SetNestedField(EmptyMap, value, Tail(fields))))

\* Unstructured.SetAnnotations / SetLabels: a nil map removes the field, any
\* other map replaces it.
SetStringMap(obj, sm, fields) ==
    IF sm.isNil THEN RemoveNestedField(obj, fields)
    ELSE SetNestedField(obj, MapV(sm.m), fields)

\* the loop `for _, key := range keys { delete(m, key) }` (a no-op on nil)
RECURSIVE DeleteKeys(_, _)
DeleteKeys(sm, keys) ==
    IF sm.isNil \/ keys = <<>> THEN sm
    ELSE DeleteKeys([sm EXCEPT !.m = DeleteKey(sm.m, Head(keys))], Tail(keys))

-----------------------------------------------------------------------------
(* strings.Split(field, ".") on a token sequence                            *)

RECURSIVE Split(_, _)
Split(s, sep) ==
    IF \A n \in 1..Len(s) : s[n] # sep THEN <<s>>
    ELSE LET n == CHOOSE n \in 1..Len(s) :
                      s[n] = sep /\ \A m \in 1..(n - 1) : s[m] # sep
         IN <<SubSeq(s, 1, n - 1)>> \o Split(SubSeq(s, n + 1, Len(s)), sep)

\* a one-token string
Token(s) == s[1]

RECURSIVE Tokens(_)
Tokens(parts) ==
    IF parts = <<>> THEN <<>> ELSE <<Token(Head(parts))>> \o Tokens(Tail(parts))

-----------------------------------------------------------------------------
(* The sanitizer                                                            *)

blockedAnnotations ==
    << "objectset.rio.cattle.io/applied", "objectset.rio.cattle.io/id",
       "objectset.rio.cattle.io/hash", "cattle.io.timestamp" >>

blockedLabels == << "objectset.rio.cattle.io/hash" >>

emptyFields ==
    << <<"metadata", ".", "annotations">>, <<"metadata", ".", "labels">> >>

blockedMetadata ==
    << "resourceVersion", "uid", "selfLink", "creationTimestamp", "generation" >>

\* removeAnnotations that deletes from the copy GetAnnotations returns and never
\* stores it back
removeAnnotations_noSet(obj, keys) == obj

removeAnnotations(obj, keys) ==
    SetStringMap(obj, DeleteKeys(NestedStringMap(obj, <<"metadata", "annotations">>), keys),
                 <<"metadata", "annotations">>)

removeLabels(obj, keys) ==
    SetStringMap(obj, DeleteKeys(NestedStringMap(obj, <<"metadata", "labels">>), keys),
                 <<"metadata", "labels">>)

\* removeEmptyFields without the len(objMap) == 0 test
RECURSIVE removeEmptyFields_noLen(_, _)
removeEmptyFields_noLen(obj, fields) ==
    IF fields = <<>> THEN obj
    ELSE LET path == Tokens(Split(Head(fields), "."))
             r == NestedFieldNoCopy(obj, path)
             next == IF r.found /\ ~r.err /\ IsMap(r.val)
                     THEN RemoveNestedField(obj, path)
                     ELSE obj
         IN removeEmptyFields_noLen(next, Tail(fields))

RECURSIVE removeEmptyFields(_, _)
removeEmptyFields(obj, fields) ==
    IF fields = <<>> THEN obj
    ELSE LET path == Tokens(Split(Head(fields), "."))
             r == NestedFieldNoCopy(obj, path)
             next == IF r.found /\ ~r.err /\ IsMap(r.val) /\ DOMAIN r.val.fields = {}
                     THEN RemoveNestedField(obj, path)
                     ELSE obj
         IN removeEmptyFields(next, Tail(fields))

RECURSIVE RemoveMetadataFields(_, _)
RemoveMetadataFields(obj, names) ==
    IF names = <<>> THEN obj
    ELSE RemoveMetadataFields(RemoveNestedField(obj, <<"metadata", Head(names)>>),
                              Tail(names))

\* cleanResource that drops the empty maps before it removes the keys
cleanResource_emptyFirst(obj) ==
    LET o1 == RemoveMetadataFields(obj, blockedMetadata)
        o2 == RemoveNestedField(o1, <<"status">>)
        o3 == RemoveNestedField(o2, <<"metadata", "managedFields">>)
        o4 == removeEmptyFields(o3, emptyFields)
        o5 == removeAnnotations(o4, blockedAnnotations)
    IN removeLabels(o5, blockedLabels)

cleanResource(obj) ==
    LET o1 == RemoveMetadataFields(obj, blockedMetadata)
        o2 == RemoveNestedField(o1, <<"status">>)
        o3 == RemoveNestedField(o2, <<"metadata", "managedFields">>)
        o4 == removeAnnotations(o3, blockedAnnotations)
        o5 == removeLabels(o4, blockedLabels)
    IN removeEmptyFields(o5, emptyFields)

-----------------------------------------------------------------------------
(* strings and path/filepath on token sequences                             *)

\* strings.HasPrefix / HasSuffix / TrimPrefix / TrimSuffix
HasPrefix(s, prefix) ==
    Len(s) >= Len(prefix) /\ SubSeq(s, 1, Len(prefix)) = prefix

HasSuffix(s, suffix) ==
    Len(s) >= Len(suffix) /\ SubSeq(s, Len(s) - Len(suffix) + 1, Len(s)) = suffix

TrimPrefix(s, prefix) ==
    IF HasPrefix(s, prefix) THEN SubSeq(s, Len(prefix) + 1, Len(s)) ELSE s

TrimSuffix(s, suffix) ==
    IF HasSuffix(s, suffix) THEN SubSeq(s, 1, Len(s) - Len(suffix)) ELSE s

\* strings.TrimSpace
RECURSIVE TrimSpace(_)
TrimSpace(s) ==
    IF s = <<>> THEN s
    ELSE IF Head(s) = " " THEN TrimSpace(Tail(s))
    ELSE IF s[Len(s)] = " " THEN TrimSpace(SubSeq(s, 1, Len(s) - 1))
    ELSE s

Separator == "/"

\* filepath.Join(a, b) for elements that hold no separator and no dot element:
\* empty elements are ignored
Join(a, b) ==
    IF a = <<>> THEN b ELSE IF b = <<>> THEN a ELSE a \o <<Separator>> \o b

\* the directories MkdirAll(path) makes sure of: path and every parent of it
Ancestors(path) ==
    { SubSeq(path, 1, n - 1) : n \in { m \in 1..Len(path) : path[m] = Separator } }
        \cup {path}

\* the directory a file path lies in
Dir(path) ==
    LET seps == { m \in 1..Len(path) : path[m] = Separator } IN
    IF seps = {} THEN <<>>
    ELSE SubSeq(path, 1, (CHOOSE m \in seps : \A x \in seps : x <= m) - 1)

-----------------------------------------------------------------------------
(* yaml.Marshal(resource.Object): the document as its lines, keys in        *)
(* sorted order, one line for each scalar and each empty map                *)

SortedKeys ==
    << "annotations", "app", "cattle.io.timestamp", "creationTimestamp", "generation",
       "labels", "managedFields", "metadata", "name", "namespace", "note",
       "objectset.rio.cattle.io/applied", "objectset.rio.cattle.io/hash",
       "objectset.rio.cattle.io/id", "resourceVersion", "selfLink", "spec", "status",
       "uid" >>

RECURSIVE MarshalMap(_, _, _)
MarshalMap(m, prefix, n) ==
    IF n > Len(SortedKeys) THEN <<>>
    ELSE LET key == SortedKeys[n]
             here == IF key \notin DOMAIN m THEN <<>>
                     ELSE IF IsMap(m[key]) /\ DOMAIN m[key].fields # {}
                          THEN MarshalMap(m[key].fields, Append(prefix, key), 1)
                          ELSE << [path |-> Append(prefix, key),
                                   val |-> IF IsMap(m[key]) THEN <<"{}">> ELSE m[key].val] >>
         IN here \o MarshalMap(m, prefix, n + 1)

Marshal(obj) == MarshalMap(obj, <<>>, 1)

-----------------------------------------------------------------------------
(* The deflate method of archive/zip, as a run-length code over the         *)
(* elements of the content, and its inverse                                 *)

RECURSIVE Deflate(_)
Deflate(bytes) ==
    IF bytes = <<>> THEN <<>>
    ELSE LET rest == Deflate(Tail(bytes)) IN
         IF rest # <<>> /\ rest[1].sym = Head(bytes)
         THEN <<[sym |-> Head(bytes), run |-> rest[1].run + 1]>> \o Tail(rest)
         ELSE <<[sym |-> Head(bytes), run |-> 1]>> \o rest

RECURSIVE Inflate(_)
Inflate(data) ==
    IF data = <<>> THEN <<>>
    ELSE IF data[1].run = 1 THEN <<data[1].sym>> \o Inflate(Tail(data))
    ELSE <<data[1].sym>> \o Inflate(<<[data[1] EXCEPT !.run = @ - 1]>> \o Tail(data))

-----------------------------------------------------------------------------
(* Objects given to the sanitizer: any subset of the fields present,        *)
(* metadata / annotations / labels absent, of another type, or maps.        *)

ListV == [kind |-> "list", val |-> <<"[]">>]

MetadataScalars ==
    { "name", "resourceVersion", "uid", "selfLink", "creationTimestamp",
      "generation", "managedFields" }

ScalarValue(key) ==
    IF key = "generation" THEN NumV
    ELSE IF key = "managedFields" THEN ListV ELSE StrV(<<"x">>)

AnnotationKeys ==
    { "objectset.rio.cattle.io/applied", "objectset.rio.cattle.io/id",
      "objectset.rio.cattle.io/hash", "cattle.io.timestamp", "note" }

LabelKeys == { "objectset.rio.cattle.io/hash", "app" }

\* maps over a subset of keys whose values are strings, except that the key
\* free (a key the policy does not name) may hold a number
KeyedMaps(keys, free) ==
    UNION { { [x \in S |-> IF x = free /\ n THEN NumV ELSE StrV(<<"v">>)] :
                n \in (IF free \in S THEN BOOLEAN ELSE {FALSE}) } :
            S \in SUBSET keys }

\* a field that is absent, holds a scalar, or holds one of the maps
FieldShapes(maps) ==
    {[present |-> FALSE]} \cup {[present |-> TRUE, v |-> StrV(<<"x">>)]}
        \cup {[present |-> TRUE, v |-> MapV(m)] : m \in maps}

WithField(m, key, shape) == IF shape.present THEN PutKey(m, key, shape.v) ELSE m

\* the metadata maps over the scalar fields, with every shape of annotations
\* and labels
MetadataMaps(scalars) ==
    { WithField(WithField([x \in S |-> ScalarValue(x)], "annotations", a), "labels", l) :
        S \in SUBSET scalars,
        a \in FieldShapes(KeyedMaps(AnnotationKeys, "note")),
        l \in FieldShapes(KeyedMaps(LabelKeys, "app")) }

Objects(scalars) ==
    { WithField(WithField(EmptyMap, "metadata", md), "status", st) :
        md \in FieldShapes(MetadataMaps(scalars)),
        st \in { [present |-> FALSE], [present |-> TRUE, v |-> MapV(EmptyMap)] } }

-----------------------------------------------------------------------------
(* The file system and the cluster                                          *)

NoFiles == [x \in {} |-> <<>>]

NoArchive == [created |-> FALSE, complete |-> FALSE, entries |-> NoFiles]

\* the walk part of the state when main is not running
IdleWalk ==
    /\ nsEnv = <<>> /\ parEnv = <<>> /\ currentDate = "2025-01-01"
    /\ cluster = {} /\ namespaceList = <<>>
    /\ i = 0 /\ k = 0 /\ items = <<>> /\ j = 0
    /\ dirs = {} /\ files = NoFiles
    /\ calls = <<>> /\ logs = <<>> /\ failures = 0
    /\ archive = NoArchive /\ requests = <<>>

Cost(failed) == IF failed THEN 1 ELSE 0

\* a call made while namespace i and resource type kk are processed (kk = 0:
\* a call for the namespace itself, or after the walk)
Call(op, kk, path, ok) == [op |-> op, i |-> i, k |-> kk, path |-> path, ok |-> ok]

\* a message printed while namespace i and resource type kk are processed
Log(msg, kk) == [msg |-> msg, i |-> i, k |-> kk]

\* os.MkdirAll(path, os.ModePerm): fails when the environment makes it fail or a
\* regular file is in the way
MkdirAll(ds, fs, path, fail) ==
    LET ok == ~fail /\ \A a \in Ancestors(path) : a \notin DOMAIN fs
    IN [ok |-> ok, dirs |-> IF ok THEN ds \cup Ancestors(path) ELSE ds]

SaveOutcomes == {"ok", "createFail", "writeFail"}

\* os.Create(path) can succeed: the directory exists and path is no directory
CanCreate(ds, path) == (Dir(path) = <<>> \/ Dir(path) \in ds) /\ path \notin ds

\* saveResourceAsYAML(resource, filePath): os.Create truncates the file, then
\* the YAML document is written; a failed write leaves the file empty.
saveResourceAsYAML(ds, fs, obj, filePath, outcome) ==
    IF ~CanCreate(ds, filePath) \/ outcome = "createFail"
    THEN [ok |-> FALSE, files |-> fs]
    ELSE IF outcome = "writeFail"
         THEN [ok |-> FALSE, files |-> PutKey(fs, filePath, <<>>)]
         ELSE [ok |-> TRUE, files |-> PutKey(fs, filePath, Marshal(obj))]

\* item.GetName(): metadata.name, "" when there is none
GetName(obj) ==
    LET r == NestedFieldNoCopy(obj, <<"metadata", "name">>) IN
    IF r.found /\ r.val.kind = "string" THEN r.val.val ELSE <<>>

Yaml(name) == name \o <<".yaml">>

baseOutputDir == <<"resources">>
originalDir == Join(baseOutputDir, <<"original">>)
modifiedDir == Join(baseOutputDir, <<"modified">>)

catalog ==
    << "deployments", "daemonsets", "statefulsets", "jobs", "cronjobs", "pods",
       "services", "configmaps", "secrets", "persistentvolumeclaims",
       "virtualservices", "gateways", "destinationrules", "envoyfilters", "ingresses",
       "serviceaccounts", "roles", "rolebindings", "clusterroles",
       "clusterrolebindings", "customresourcedefinitions", "persistentvolumes",
       "apiservices", "ingressclasses", "storageclasses", "networkpolicies" >>

\* the resource types the walk goes through
resourceTypes == SubSeq(catalog, 1, MaxKinds)

\* an object as the API server returns it
ApiObject(name, namespace) ==
    LET md == [x \in {"name", "namespace", "uid", "annotations"} |->
                  IF x = "name" THEN StrV(name)
                  ELSE IF x = "namespace" THEN StrV(namespace)
                  ELSE IF x = "uid" THEN StrV(<<"u">>)
                  ELSE MapV([y \in {"objectset.rio.cattle.io/applied"} |-> StrV(<<"v">>)])]
    IN [x \in {"metadata", "status"} |-> IF x = "metadata" THEN MapV(md) ELSE MapV(EmptyMap)]

\* the namespaced objects a cluster may hold: [kind, namespace, name]
ClusterObjects ==
    { [kind |-> catalog[1], namespace |-> <<"a">>, name |-> <<"web">>],
      [kind |-> catalog[1], namespace |-> <<"b">>, name |-> <<"web">>],
      [kind |-> catalog[2], namespace |-> <<"a">>, name |-> <<"web">>] }

\* the order the API server lists the objects in
ListOrder ==
    << [namespace |-> <<"a">>, name |-> <<"web">>],
       [namespace |-> <<"b">>, name |-> <<"web">>] >>

RECURSIVE ListFrom(_, _, _)
ListFrom(kind, namespace, n) ==
    IF n > Len(ListOrder) THEN <<>>
    ELSE LET o == ListOrder[n]
             here == IF [kind |-> kind, namespace |-> o.namespace, name |-> o.name] \in cluster
                        /\ (namespace = <<>> \/ namespace = o.namespace)
                     THEN <<ApiObject(o.name, o.namespace)>>
                     ELSE <<>>
         IN here \o ListFrom(kind, namespace, n + 1)

\* dynClient.Resource(res).Namespace(namespace).List: the objects of the kind
\* in the namespace, in every namespace when namespace is ""
ListItems(kind, namespace) == ListFrom(kind, namespace, 1)

\* the names getAllNamespaces may return
ClusterNamespaceLists == { << <<"a">> >>, << <<"a">>, <<"b">> >> }

\* the entries NAMESPACES is made of: blank, a name, a name after a space
EnvEntries == { <<>>, <<"a">>, <<" ", "a">> }

\* the values of NAMESPACES with n entries
RECURSIVE EnvStrings(_)
EnvStrings(n) ==
    IF n = 1 THEN EnvEntries
    ELSE { s \o <<",">> \o e : s \in EnvStrings(n - 1), e \in EnvEntries }

RECURSIVE Strings(_, _)
Strings(alphabet, n) ==
    IF n = 0 THEN {<<>>}
    ELSE LET shorter == Strings(alphabet, n - 1)
         IN shorter \cup { Append(s, c) : s \in shorter, c \in alphabet }

-----------------------------------------------------------------------------
(* main                                                                     *)

InitWalk ==
    /\ pc = "start"
    /\ resource = EmptyMap /\ fetched = EmptyMap /\ cleanCount = 0
    /\ nsEnv \in UNION { EnvStrings(n) : n \in 1..MaxNamespaces } \cup {<<"*">>}
    /\ parEnv = <<"o", "/">>
    /\ currentDate = "2025-01-01"
    /\ cluster \in SUBSET ClusterObjects
    /\ namespaceList = <<>>
    /\ i = 0 /\ k = 0 /\ items = <<>> /\ j = 0
    /\ dirs = {} /\ files = NoFiles
    /\ calls = <<>> /\ logs = <<>> /\ failures = 0
    /\ archive = NoArchive /\ requests = <<>>

\* main.go:52-63: the namespace list, from the cluster for "*", else the
\* comma-separated entries of NAMESPACES
ReadNamespaces ==
    /\ pc = "start"
    /\ IF nsEnv = <<"*">>
       THEN \/ /\ failures < MaxFailures
               /\ failures' = failures + 1
               /\ pc' = "panic"
               /\ UNCHANGED namespaceList
            \/ /\ namespaceList' \in ClusterNamespaceLists
               /\ pc' = "mkdirs"
               /\ UNCHANGED failures
       ELSE /\ namespaceList' = Split(nsEnv, ",")
            /\ pc' = "mkdirs"
            /\ UNCHANGED failures
    /\ UNCHANGED <<cleanVars, nsEnv, parEnv, currentDate, cluster, i, k, items, j, dirs,
                   files, calls, logs, archive, requests>>

\* main.go:65-82: resources, resources/original and resources/modified; a
\* failure panics
MakeOutputDirs ==
    /\ pc = "mkdirs"
    /\ \/ /\ failures < MaxFailures
          /\ failures' = failures + 1
          /\ pc' = "panic"
          /\ UNCHANGED <<dirs, i, k>>
       \/ /\ dirs' = dirs \cup Ancestors(originalDir) \cup Ancestors(modifiedDir)
          /\ i' = 1 /\ k' = 1
          /\ pc' = "namespace"
          /\ UNCHANGED failures
    /\ UNCHANGED <<cleanVars, nsEnv, parEnv, currentDate, cluster, namespaceList, items, j,
                   files, calls, logs, archive, requests>>

\* saveNamespaceResource (main.go:242-269): get the Namespace object, save it,
\* clean a deep copy and save that; the first failure returns.
saveNamespaceResource(ds, fs, namespace, oDir, mDir, getFails, so, sm) ==
    LET getOk == ~getFails /\ namespace # <<>>
        obj == ApiObject(namespace, <<>>)
        originalFilePath == Join(oDir, Yaml(namespace))
        modifiedFilePath == Join(mDir, Yaml(namespace))
        s1 == saveResourceAsYAML(ds, fs, obj, originalFilePath, so)
        cleaned == cleanResource(obj)
        s2 == saveResourceAsYAML(ds, s1.files, cleaned, modifiedFilePath, sm)
        get == Call("get", 0, namespace, getOk)
        c1 == Call("save", 0, originalFilePath, s1.ok)
        c2 == Call("save", 0, modifiedFilePath, s2.ok)
    IN IF ~getOk THEN [ok |-> FALSE, files |-> fs, calls |-> <<get>>]
       ELSE IF ~s1.ok THEN [ok |-> FALSE, files |-> s1.files, calls |-> <<get, c1>>]
       ELSE [ok |-> s2.ok, files |-> s2.files, calls |-> <<get, c1, c2>>]

\* main.go:119-139: the directories of the namespace and its Namespace object
ProcessNamespace ==
    /\ pc = "namespace"
    /\ i <= Len(namespaceList)
    /\ \E fo, fm, fg \in BOOLEAN, so, sm \in SaveOutcomes :
         LET namespace == TrimSpace(namespaceList[i])
             originalNamespaceDir == Join(originalDir, namespace)
             modifiedNamespaceDir == Join(modifiedDir, namespace)
             mk1 == MkdirAll(dirs, files, originalNamespaceDir, fo)
             mk2 == MkdirAll(mk1.dirs, files, modifiedNamespaceDir, fm)
             sv == saveNamespaceResource(mk2.dirs, files, namespace, originalNamespaceDir,
                                         modifiedNamespaceDir, fg, so, sm)
             cost == Cost(fo) + Cost(fm) + Cost(fg) + Cost(so # "ok") + Cost(sm # "ok")
         IN /\ failures + cost <= MaxFailures
            \* the environment fails only calls that are made and would succeed
            /\ fg => namespace # <<>>
            /\ so # "ok" => ~fg /\ namespace # <<>>
                            /\ CanCreate(mk2.dirs, Join(originalNamespaceDir, Yaml(namespace)))
            /\ sm # "ok" => ~fg /\ namespace # <<>> /\ so = "ok"
                            /\ Len(sv.calls) = 3
                            /\ CanCreate(mk2.dirs, Join(modifiedNamespaceDir, Yaml(namespace)))
            /\ failures' = failures + cost
            /\ dirs' = mk2.dirs
            /\ files' = sv.files
            /\ calls' = calls \o << Call("mkdir", 0, originalNamespaceDir, mk1.ok),
                                    Call("mkdir", 0, modifiedNamespaceDir, mk2.ok) >>
                              \o sv.calls
            /\ logs' = logs
                 \o (IF mk1.ok THEN <<>> ELSE <<Log("Erro ao criar diretorio para namespace", 0)>>)
                 \o (IF mk2.ok THEN <<>> ELSE <<Log("Erro ao criar diretorio para namespace", 0)>>)
                 \o (IF sv.ok THEN <<>> ELSE <<Log("Erro ao salvar o recurso Namespace", 0)>>)
    /\ k' = 1
    /\ pc' = "kind"
    /\ UNCHANGED <<cleanVars, nsEnv, parEnv, currentDate, cluster, namespaceList, i, items,
                   j, archive, requests>>

\* a failed listing that leaves the resource type loop (break for continue)
OnListError_break ==
    /\ k' = 1 /\ i' = i + 1
    /\ pc' = IF i + 1 <= Len(namespaceList) THEN "namespace" ELSE "zip"

\* an empty list that is not recognised as empty
NoItems_never(its) == FALSE

\* the step after a resource type is done: the next type, else the next
\* namespace, else the packaging
Advance ==
    IF k < Len(resourceTypes)
    THEN /\ k' = k + 1 /\ i' = i /\ pc' = "kind"
    ELSE /\ k' = 1 /\ i' = i + 1
         /\ pc' = IF i + 1 <= Len(namespaceList) THEN "namespace" ELSE "zip"

\* a resource type whose listing failed (main.go:146-149): log, continue
OnListError == Advance

\* len(resourceList.Items) == 0 (main.go:151)
NoItems(its) == Len(its) = 0

\* main.go:142-166: list the objects of the type; an error or an empty list
\* goes on to the next type, else the two directories of the type are made
ListKind ==
    /\ pc = "kind"
    /\ \E fl, fo, fm \in BOOLEAN :
         LET namespace == TrimSpace(namespaceList[i])
             res == resourceTypes[k]
             its == ListItems(res, namespace)
             originalResourceDir == Join(Join(originalDir, namespace), <<res>>)
             modifiedResourceDir == Join(Join(modifiedDir, namespace), <<res>>)
             mk1 == MkdirAll(dirs, files, originalResourceDir, fo)
             mk2 == MkdirAll(mk1.dirs, files, modifiedResourceDir, fm)
             cost == Cost(fl) + Cost(fo) + Cost(fm)
         IN /\ failures + cost <= MaxFailures
            /\ (fo \/ fm) => ~fl /\ its # <<>>
            /\ failures' = failures + cost
            /\ IF fl
               THEN /\ calls' = Append(calls, Call("list", k, Join(namespace, <<res>>), FALSE))
                    /\ logs' = Append(logs, Log("Erro ao listar recursos", k))
                    /\ OnListError
                    /\ UNCHANGED <<dirs, items, j>>
               ELSE IF NoItems(its)
               THEN /\ calls' = Append(calls, Call("list", k, Join(namespace, <<res>>), TRUE))
                    /\ logs' = Append(logs, Log("Nenhum recurso encontrado", k))
                    /\ Advance
                    /\ UNCHANGED <<dirs, items, j>>
               ELSE /\ calls' = calls \o
                          << Call("list", k, Join(namespace, <<res>>), TRUE),
                             Call("mkdir", k, originalResourceDir, mk1.ok),
                             Call("mkdir", k, modifiedResourceDir, mk2.ok) >>
                    /\ logs' = logs
                         \o (IF mk1.ok THEN <<>>
                             ELSE <<Log("Erro ao criar diretorio para recurso", k)>>)
                         \o (IF mk2.ok THEN <<>>
                             ELSE <<Log("Erro ao criar diretorio para recurso", k)>>)
                    /\ dirs' = mk2.dirs
                    /\ items' = its
                    /\ j' = 1
                    /\ pc' = "items"
                    /\ UNCHANGED <<i, k>>
    /\ UNCHANGED <<cleanVars, nsEnv, parEnv, currentDate, cluster, namespaceList, files,
                   archive, requests>>

\* the body of the item loop that gives up on the item when the original
\* cannot be saved
saveItem_returnOnError(ds, fs, item, originalFilePath, modifiedFilePath, so, sm) ==
    LET s1 == saveResourceAsYAML(ds, fs, item, originalFilePath, so)
        cleaned == cleanResource(item)
        s2 == saveResourceAsYAML(ds, s1.files, cleaned, modifiedFilePath, sm)
    IN IF s1.ok
       THEN [files |-> s2.files, saved |-> <<[path |-> originalFilePath, ok |-> s1.ok],
                                             [path |-> modifiedFilePath, ok |-> s2.ok]>>]
       ELSE [files |-> s1.files, saved |-> <<[path |-> originalFilePath, ok |-> s1.ok]>>]

\* the body of the item loop (main.go:170-187): save the item as fetched, clean
\* it, save it again; an error of either save is printed and nothing else
saveItem(ds, fs, item, originalFilePath, modifiedFilePath, so, sm) ==
    LET s1 == saveResourceAsYAML(ds, fs, item, originalFilePath, so)
        cleaned == cleanResource(item)
        s2 == saveResourceAsYAML(ds, s1.files, cleaned, modifiedFilePath, sm)
    IN [files |-> s2.files, saved |-> <<[path |-> originalFilePath, ok |-> s1.ok],
                                        [path |-> modifiedFilePath, ok |-> s2.ok]>>]

RECURSIVE SaveCalls(_)
SaveCalls(saved) ==
    IF saved = <<>> THEN <<>>
    ELSE <<Call("save", k, Head(saved).path, Head(saved).ok)>> \o SaveCalls(Tail(saved))

RECURSIVE SaveLogs(_)
SaveLogs(saved) ==
    IF saved = <<>> THEN <<>>
    ELSE (IF Head(saved).ok THEN <<>>
          ELSE IF HasPrefix(Head(saved).path, originalDir)
               THEN <<Log("Erro ao salvar recurso original", k)>>
               ELSE <<Log("Erro ao salvar recurso modificado", k)>>)
         \o SaveLogs(Tail(saved))

\* main.go:169-188: one turn of the item loop
SaveItem ==
    /\ pc = "items"
    /\ j <= Len(items)
    /\ \E so, sm \in SaveOutcomes :
         LET namespace == TrimSpace(namespaceList[i])
             res == resourceTypes[k]
             item == items[j]
             originalFilePath ==
                 Join(Join(Join(originalDir, namespace), <<res>>), Yaml(GetName(item)))
             modifiedFilePath ==
                 Join(Join(Join(modifiedDir, namespace), <<res>>), Yaml(GetName(item)))
             sv == saveItem(dirs, files, item, originalFilePath, modifiedFilePath, so, sm)
             cost == Cost(so # "ok") + Cost(sm # "ok")
         IN /\ failures + cost <= MaxFailures
            /\ so # "ok" => CanCreate(dirs, originalFilePath)
            /\ sm # "ok" => CanCreate(dirs, modifiedFilePath)
            /\ failures' = failures + cost
            /\ files' = sv.files
            /\ calls' = calls \o SaveCalls(sv.saved)
            /\ logs' = logs \o SaveLogs(sv.saved)
    /\ IF j < Len(items)
       THEN /\ j' = j + 1 /\ UNCHANGED <<pc, i, k, items>>
       ELSE /\ j' = 0 /\ items' = <<>> /\ Advance
    /\ UNCHANGED <<cleanVars, nsEnv, parEnv, currentDate, cluster, namespaceList, dirs,
                   archive, requests>>

-----------------------------------------------------------------------------
(* Packaging                                                                *)

\* fmt.Sprintf("backup-cluster-%s.zip", currentDate)
zipFileName == <<"backup-cluster-", currentDate, ".zip">>

\* what filepath.Walk(sourceDir, fn) visits: sourceDir and all below it
Visited(sourceDir) ==
    { p \in dirs \cup DOMAIN files :
        p = sourceDir \/ HasPrefix(p, Append(sourceDir, Separator)) }

\* the entry name that keeps the separator after sourceDir
ZipPath_keepSeparator(path, sourceDir) == TrimPrefix(path, sourceDir)

\* the name of the entry of the file at path (main.go:383-384)
ZipPath(path, sourceDir) ==
    TrimPrefix(TrimPrefix(path, sourceDir), <<Separator>>)

\* the entries the walk function adds (main.go:365-407): nothing for a
\* directory, for a file a header with the relative name and the deflate
\* method, and the content copied through it
ZipEntries(sourceDir) ==
    [ p \in { v \in Visited(sourceDir) : v \notin dirs } |->
        [ Name |-> ZipPath(p, sourceDir), Method |-> "Deflate",
          data |-> Deflate(files[p]) ] ]

ZipOutcomes == {"ok", "createFail", "walkFail"}

\* ZipDirectory(sourceDir, outputZip) (main.go:352-413): an archive that could
\* not be created is left as it was, a failed walk leaves an incomplete one
ZipDirectory(sourceDir, outcome) ==
    IF outcome = "createFail" THEN archive
    ELSE IF outcome = "walkFail" \/ sourceDir \notin dirs
         THEN [created |-> TRUE, complete |-> FALSE, entries |-> NoFiles]
         ELSE [created |-> TRUE, complete |-> TRUE, entries |-> ZipEntries(sourceDir)]

\* main.go:192-204: pack resources into backup-cluster-<date>.zip
Archive ==
    /\ pc = "zip"
    /\ \E outcome \in ZipOutcomes :
         LET ok == outcome = "ok" /\ baseOutputDir \in dirs IN
         /\ failures + Cost(outcome # "ok") <= MaxFailures
         /\ failures' = failures + Cost(outcome # "ok")
         /\ archive' = ZipDirectory(baseOutputDir, outcome)
         /\ calls' = Append(calls, Call("zip", 0, zipFileName, ok))
         /\ logs' = logs \o <<Log("Processamento concluido", 0)>>
                \o (IF ok THEN <<Log("Compactacao concluida com sucesso", 0)>>
                    ELSE <<Log("Erro ao compactar diretorio", 0)>>)
    /\ pc' = "upload"
    /\ UNCHANGED <<cleanVars, nsEnv, parEnv, currentDate, cluster, namespaceList, i, k,
                   items, j, dirs, files, requests>>

-----------------------------------------------------------------------------
(* Upload                                                                   *)

\* the first n with s[n] = c, 0 when there is none
IndexOf(s, c) ==
    IF \A n \in 1..Len(s) : s[n] # c THEN 0
    ELSE CHOOSE n \in 1..Len(s) : s[n] = c /\ \A m \in 1..(n - 1) : s[m] # c

\* url.Parse(rawURL): the path up to the first "?", the query after it; an
\* invalid escape in the path is an error
ParseURL(rawURL) ==
    LET q == IndexOf(rawURL, "?")
        path == IF q = 0 THEN rawURL ELSE SubSeq(rawURL, 1, q - 1)
    IN IF IndexOf(path, "%") # 0 THEN [err |-> TRUE]
       ELSE [err |-> FALSE, Path |-> path, ForceQuery |-> q # 0,
             RawQuery |-> IF q = 0 THEN <<>> ELSE SubSeq(rawURL, q + 1, Len(rawURL))]

\* (*url.URL).String()
URLString(u) == u.Path \o (IF u.ForceQuery THEN <<"?">> \o u.RawQuery ELSE <<>>)

\* main.go:206-212: the URL ends with "/" and the name of the archive
DestinationURL(parURL, fileName) ==
    IF ~HasSuffix(parURL, <<"/">> \o fileName)
    THEN TrimSuffix(parURL, <<"/">>) \o <<"/">> \o fileName
    ELSE parURL

PutOutcomes == {"200", "201", "500", "transport error"}

\* main.go:206-220 and UploadUsingPAR (main.go:416-476): one PUT of the
\* archive, unless the URL does not parse or the archive does not exist
Upload ==
    /\ pc = "upload"
    /\ \E outcome \in PutOutcomes :
         LET parURL == DestinationURL(parEnv, zipFileName)
             escapedURL == ParseURL(parURL)
             sent == ~escapedURL.err /\ archive.created
             ok == sent /\ outcome \in {"200", "201"}
             cost == Cost(outcome \notin {"200", "201"})
         IN /\ ~sent => outcome = "200"
            /\ failures + cost <= MaxFailures
            /\ failures' = failures + cost
            /\ requests' =
                 IF sent
                 THEN Append(requests,
                             [ method |-> "PUT", url |-> URLString(escapedURL),
                               path |-> escapedURL.Path,
                               contentType |-> "application/zip", body |-> archive,
                               status |-> outcome ])
                 ELSE requests
            /\ calls' = Append(calls, Call("put", 0, parURL, ok))
            /\ logs' = Append(logs, IF ok THEN Log("Upload concluido com sucesso", 0)
                                    ELSE Log("Erro ao fazer upload", 0))
    /\ pc' = "done"
    /\ UNCHANGED <<cleanVars, nsEnv, parEnv, currentDate, cluster, namespaceList, i, k,
                   items, j, dirs, files, archive>>

-----------------------------------------------------------------------------
(* Packaging and upload started from any output tree and any URL            *)

TreeRoot == Append(baseOutputDir, Separator)

TreeFiles ==
    { TreeRoot \o <<"c.yaml">>,
      TreeRoot \o <<"a", Separator, "b.yaml">>,
      TreeRoot \o <<"a", Separator, "d", Separator, "c.yaml">> }

TreeContents == { <<>>, <<"x">>, <<"x", "x">>, <<"x", "y", "y">> }

\* a directory with nothing in it
TreeEmptyDir == TreeRoot \o <<"e">>

\* the directories the files of a tree lie in
DirsOf(paths) == UNION { Ancestors(Dir(p)) : p \in paths }

InitZip ==
    /\ pc = "zip"
    /\ resource = EmptyMap /\ fetched = EmptyMap /\ cleanCount = 0
    /\ nsEnv = <<>> /\ parEnv = <<>> /\ currentDate = "2025-01-01"
    /\ cluster = {} /\ namespaceList = <<>>
    /\ i = 0 /\ k = 0 /\ items = <<>> /\ j = 0
    /\ \E present \in SUBSET TreeFiles :
         /\ files \in [present -> TreeContents]
         /\ dirs \in { DirsOf(present) \cup {baseOutputDir} \cup extra :
                         extra \in { {}, Ancestors(TreeEmptyDir) } }
    /\ calls = <<>> /\ logs = <<>> /\ failures = 0
    /\ archive = NoArchive /\ requests = <<>>

\* a name, the separators of a URL, an invalid escape, and the parts of the
\* name of the archive
UrlAlphabet == { "o", "/", "?", "%", "backup-cluster-", "2025-01-01", ".zip" }

InitUrl ==
    /\ pc = "upload"
    /\ resource = EmptyMap /\ fetched = EmptyMap /\ cleanCount = 0
    /\ nsEnv = <<>>
    /\ parEnv \in Strings(UrlAlphabet, MaxUrlLen)
    /\ currentDate = "2025-01-01"
    /\ cluster = {} /\ namespaceList = <<>>
    /\ i = 0 /\ k = 0 /\ items = <<>> /\ j = 0
    /\ dirs = {baseOutputDir} /\ files = NoFiles
    /\ calls = <<>> /\ logs = <<>> /\ failures = 0
    /\ archive = [created |-> TRUE, complete |-> TRUE, entries |-> NoFiles]
    /\ requests = <<>>

-----------------------------------------------------------------------------
(* Specifications                                                           *)

Next ==
    \/ ReadNamespaces
    \/ MakeOutputDirs
    \/ ProcessNamespace
    \/ ListKind
    \/ SaveItem
    \/ Archive
    \/ Upload

\* a run of main
Spec == InitWalk /\ [][Next]_vars

\* the run of ZipDirectory alone, over any tree under resources
SpecZip == InitZip /\ [][Archive]_vars

\* the run of the upload alone, for any OCI_PAR_URL
SpecUrl == InitUrl /\ [][Upload]_vars


-----------------------------------------------------------------------------
(* The sanitizer applied to one object                                      *)

InitClean ==
    /\ pc = "clean"
    /\ resource \in Objects(MetadataScalars)
    /\ fetched = resource
    /\ cleanCount = 0
    /\ IdleWalk

\* cleanResource(&item), main.go:181 / cleanResource(modifiedNamespaceRes), main.go:259
Clean ==
    /\ pc = "clean"
    /\ cleanCount < MaxCleans
    /\ resource' = cleanResource(resource)
    /\ cleanCount' = cleanCount + 1
    /\ UNCHANGED <<pc, fetched, walkVars>>

NextClean == Clean

SpecClean == InitClean /\ [][NextClean]_vars

-----------------------------------------------------------------------------
(* Claims about the sanitizer (checked under SpecClean)                     *)

HasMapAt(m, key) == key \in DOMAIN m /\ IsMap(m[key])

\* none of the keys is a key of the map at m[key], if there is one
FreeOfKeys(m, key, keys) ==
    HasMapAt(m, key) => (DOMAIN m[key].fields) \cap keys = {}

\* o holds none of the fields and keys the removal policy names
Sanitized(o) ==
    /\ "status" \notin DOMAIN o
    /\ HasMapAt(o, "metadata") =>
         /\ (DOMAIN o["metadata"].fields) \cap
                { "resourceVersion", "uid", "selfLink", "creationTimestamp",
                  "generation", "managedFields" } = {}
         /\ FreeOfKeys(o["metadata"].fields, "annotations",
                       { "objectset.rio.cattle.io/applied", "objectset.rio.cattle.io/id",
                         "objectset.rio.cattle.io/hash", "cattle.io.timestamp" })
         /\ FreeOfKeys(o["metadata"].fields, "labels", {"objectset.rio.cattle.io/hash"})

\* C1: whatever the shape of the object given to cleanResource, its result
\* holds none of metadata.resourceVersion, uid, selfLink, creationTimestamp,
\* generation, managedFields, no top-level status, none of the blocked
\* annotation keys and not the blocked label key.
C1_CleanRemovesBlocked == cleanCount >= 1 => Sanitized(resource)

\* an object with every blocked field and key, and one key of each map to keep,
\* has been cleaned once
C1_Witness ==
    /\ cleanCount = 1
    /\ "status" \in DOMAIN fetched
    /\ HasMapAt(fetched, "metadata")
    /\ MetadataScalars \subseteq DOMAIN fetched["metadata"].fields
    /\ HasMapAt(fetched["metadata"].fields, "annotations")
    /\ DOMAIN fetched["metadata"].fields["annotations"].fields = AnnotationKeys
    /\ HasMapAt(fetched["metadata"].fields, "labels")
    /\ DOMAIN fetched["metadata"].fields["labels"].fields = LabelKeys
    /\ resource # fetched

\* the field is absent, or a map with at least one key and only string values
AbsentOrProperMap(m, key) ==
    key \in DOMAIN m =>
        /\ IsMap(m[key])
        /\ DOMAIN m[key].fields # {}
        /\ AllStrings(m[key].fields)

\* o without the annotations / labels field that is an empty map or no map of
\* strings
WithoutDegenerate(o) ==
    IF HasMapAt(o, "metadata")
    THEN LET md == o["metadata"].fields
             drop == { key \in {"annotations", "labels"} : ~AbsentOrProperMap(md, key) }
         IN [o EXCEPT !["metadata"] = MapV([x \in (DOMAIN md) \ drop |-> md[x]])]
    ELSE o

\* C2 as stated: an object with none of the blocked fields and keys is left
\* exactly as it was by cleanResource, also when its annotations or labels are
\* an empty map.
C2_NoOpOnClean == (cleanCount = 1 /\ Sanitized(fetched)) => resource = fetched

\* C2 amended: an object with none of the blocked fields and keys is left as it
\* was by cleanResource when its metadata.annotations and metadata.labels are
\* each absent or a non-empty map of strings; an annotations or labels field
\* that is an empty map (or no map of strings) is removed, and nothing else
\* changes.
C2_NoOpUnlessEmptyMap ==
    (cleanCount = 1 /\ Sanitized(fetched)) =>
        /\ resource = WithoutDegenerate(fetched)
        /\ (HasMapAt(fetched, "metadata")
              /\ AbsentOrProperMap(fetched["metadata"].fields, "annotations")
              /\ AbsentOrProperMap(fetched["metadata"].fields, "labels"))
           => resource = fetched

\* an object with no blocked field, a name, one annotation and one label has
\* been cleaned once
C2_Witness ==
    /\ cleanCount = 1
    /\ Sanitized(fetched)
    /\ HasMapAt(fetched, "metadata")
    /\ DOMAIN fetched["metadata"].fields = {"name", "annotations", "labels"}
    /\ HasMapAt(fetched["metadata"].fields, "annotations")
    /\ fetched["metadata"].fields["annotations"].fields = [x \in {"note"} |-> StrV(<<"v">>)]
    /\ HasMapAt(fetched["metadata"].fields, "labels")
    /\ fetched["metadata"].fields["labels"].fields = [x \in {"app"} |-> StrV(<<"v">>)]

\* C3: cleaning the result of cleanResource again gives that result:
\* cleanResource(cleanResource(x)) = cleanResource(x) for every object x.
C3_CleanIdempotent == cleanCount = 2 => resource = cleanResource(fetched)

\* an object whose annotations hold only blocked keys, with a status and a uid,
\* has been cleaned twice
C3_Witness ==
    /\ cleanCount = 2
    /\ "status" \in DOMAIN fetched
    /\ HasMapAt(fetched, "metadata")
    /\ "uid" \in DOMAIN fetched["metadata"].fields
    /\ HasMapAt(fetched["metadata"].fields, "annotations")
    /\ DOMAIN fetched["metadata"].fields["annotations"].fields =
           {"objectset.rio.cattle.io/applied", "cattle.io.timestamp"}
    /\ resource # fetched

-----------------------------------------------------------------------------
(* Claims about the walk (checked under Spec)                               *)

Positions == 1..Len(calls)

\* the namespace of entry n of the list, as main uses it
NamespaceAt(n) == TrimSpace(namespaceList[n])

\* C4 as stated: whatever the namespace list (duplicates and blank entries
\* included) and the list results, no path is written by two saves of one run:
\* no two captured objects go to the same file and no file is written twice.
C4_EachFileWrittenOnce ==
    \A m, n \in Positions :
        (m < n /\ calls[m].op = "save" /\ calls[n].op = "save"
           /\ calls[m].ok /\ calls[n].ok)
        => calls[m].path # calls[n].path

\* the listing at position m of calls succeeded and returned no object
EmptyListAt(m) ==
    /\ calls[m].op = "list"
    /\ calls[m].ok
    /\ [kind |-> resourceTypes[calls[m].k]] \notin
         { [kind |-> o.kind] : o \in
             { c \in cluster : NamespaceAt(calls[m].i) \in {<<>>, c.namespace} } }

\* what the call after the calls for namespace n, resource type kk must be
IsNextScope(c, n, kk) ==
    IF kk < Len(resourceTypes)
    THEN c.op = "list" /\ c.i = n /\ c.k = kk + 1
    ELSE IF n < Len(namespaceList)
         THEN c.op = "mkdir" /\ c.i = n + 1 /\ c.k = 0
         ELSE c.op = "zip"

\* C5: for a namespace and resource type whose listing returns no object, the
\* walk makes no directory and writes no file for that type (no mkdir and no
\* save is even attempted for it), prints no error for it, and goes on to the
\* next resource type of the catalog (the next namespace or the packaging
\* after the last one).
C5_EmptyKindLeavesNoTrace ==
    \A m \in Positions :
        EmptyListAt(m) =>
            /\ \A n \in Positions :
                 (calls[n].i = calls[m].i /\ calls[n].k = calls[m].k) => n = m
            /\ \A n \in 1..Len(logs) :
                 (logs[n].i = calls[m].i /\ logs[n].k = calls[m].k)
                 => logs[n].msg = "Nenhum recurso encontrado"
            /\ IF m < Len(calls)
               THEN IsNextScope(calls[m + 1], calls[m].i, calls[m].k)
               ELSE pc = IF calls[m].k < Len(resourceTypes) THEN "kind"
                         ELSE IF calls[m].i < Len(namespaceList) THEN "namespace"
                         ELSE "zip"

\* the first resource type of namespace a had an object and was saved, the
\* second had none, and the run went on to the end
C5_Witness ==
    /\ pc = "done"
    /\ \E m, n \in Positions :
         /\ calls[m].op = "save" /\ calls[m].ok /\ calls[m].k = 1
         /\ EmptyListAt(n) /\ calls[n].i = calls[m].i /\ calls[n].k = 2

\* the list calls made so far, in order
ListCalls == SelectSeq(calls, LAMBDA c : c.op = "list")

\* the list call number n of a complete walk: namespaces in input order, and
\* for each the resource types in catalog order
ExpectedList(n) ==
    LET kinds == Len(resourceTypes)
        ns == ((n - 1) \div kinds) + 1
        kk == ((n - 1) % kinds) + 1
    IN [i |-> ns, k |-> kk, path |-> Join(NamespaceAt(ns), <<resourceTypes[kk]>>)]

\* the steps of the item loop one resource type can take, and the steps one
\* resource type and one namespace can take
KindSteps == 1 + Len(ListOrder)
NamespaceSteps == 1 + Len(resourceTypes) * KindSteps

\* a bound on the number of steps left to the end of the run
Remaining ==
    LET left == Len(namespaceList) - i IN
    IF pc = "start" THEN (MaxNamespaces + Len(ListOrder)) * NamespaceSteps + 5
    ELSE IF pc = "mkdirs" THEN Len(namespaceList) * NamespaceSteps + 4
    ELSE IF pc = "namespace" THEN (left + 1) * NamespaceSteps + 2
    ELSE IF pc = "kind"
         THEN left * NamespaceSteps + (Len(resourceTypes) - k + 1) * KindSteps + 2
    ELSE IF pc = "items"
         THEN left * NamespaceSteps + (Len(resourceTypes) - k) * KindSteps
              + (Len(items) - j + 1) + 2
    ELSE IF pc = "zip" THEN 2
    ELSE IF pc = "upload" THEN 1
    ELSE 0

\* the loops stand at an element they can process
InRange ==
    /\ pc \in {"namespace", "kind", "items"} => i \in 1..Len(namespaceList)
    /\ pc \in {"kind", "items"} => k \in 1..Len(resourceTypes)
    /\ pc = "items" => j \in 1..Len(items)

\* what holds of the calls made when the run has ended
WalkDone ==
    /\ Len(ListCalls) = Len(namespaceList) * Len(resourceTypes)
    /\ \A n \in 1..Len(ListCalls) :
         /\ ListCalls[n].i = ExpectedList(n).i
         /\ ListCalls[n].k = ExpectedList(n).k
         /\ ListCalls[n].path = ExpectedList(n).path
    /\ Len(calls) >= 2
    /\ calls[Len(calls) - 1].op = "zip"
    /\ calls[Len(calls)].op = "put"
    /\ \A n \in 1..(Len(calls) - 2) : calls[n].op \notin {"zip", "put"}

\* C8: whatever fails on the way (a namespace directory, the Namespace object,
\* a listing, a resource type directory, a save), the run ends: every step
\* lowers a bound on the steps left and every loop stands at an element it can
\* process. At the end exactly one list call has been made for every pair of a
\* namespace entry and a resource type, namespaces in input order and resource
\* types in catalog order within each; the packaging and then the upload have
\* each been attempted exactly once, after the last list call.
C8_WalkCompletes ==
    /\ [](Remaining >= 0 /\ InRange /\ (pc = "done" => WalkDone))
    /\ [][Remaining' < Remaining]_vars

\* a run over two namespaces has ended although a listing failed in the first
C8_Witness ==
    /\ pc = "done"
    /\ Len(namespaceList) = 2
    /\ \E m \in Positions : calls[m].op = "list" /\ ~calls[m].ok /\ calls[m].i = 1

\* C9 as stated: once the creation of a namespace directory (of either variant)
\* has failed, nothing more is attempted inside that directory for that
\* namespace: no save of the Namespace object, no directory of a resource
\* type, no save of an object.
C9_FailedDirectoryLeftAlone ==
    \A m, n \in Positions :
        (m < n /\ calls[m].op = "mkdir" /\ calls[m].k = 0 /\ ~calls[m].ok
           /\ calls[n].i = calls[m].i /\ calls[n].op \in {"mkdir", "save"})
        => ~HasPrefix(calls[n].path, Append(calls[m].path, Separator))

\* the paths of the two variants of item n of the running list
ItemPath(variantDir, n) ==
    Join(Join(Join(variantDir, NamespaceAt(i)), <<resourceTypes[k]>>),
         Yaml(GetName(items[n])))

\* C10: in one turn of the item loop the original variant is saved first, with
\* the object as the list call returned it, then the sanitized object is saved
\* to the same relative path under modified; both saves are attempted whether
\* or not the other fails, and the loop goes on to the next item.
C10_BothVariantsSaved ==
    [][ pc = "items" =>
          LET n == Len(calls)
              original == ItemPath(originalDir, j)
              modified == ItemPath(modifiedDir, j)
          IN /\ Len(calls') = n + 2
             /\ calls'[n + 1].op = "save" /\ calls'[n + 1].path = original
             /\ calls'[n + 2].op = "save" /\ calls'[n + 2].path = modified
             /\ TrimPrefix(original, originalDir) = TrimPrefix(modified, modifiedDir)
             /\ calls'[n + 1].ok => files'[original] = Marshal(items[j])
             /\ calls'[n + 2].ok =>
                  /\ files'[modified] = Marshal(cleanResource(items[j]))
                  /\ files'[modified] # Marshal(items[j])
             /\ j < Len(items) => (pc' = "items" /\ j' = j + 1 /\ items' = items)
      ]_vars

\* the save of an original failed, the save of its sanitized variant right
\* after it succeeded
C10_Witness ==
    \E m \in Positions :
        /\ m < Len(calls)
        /\ calls[m].op = "save" /\ calls[m].k > 0 /\ ~calls[m].ok
        /\ HasPrefix(calls[m].path, originalDir)
        /\ calls[m + 1].op = "save" /\ calls[m + 1].ok
        /\ HasPrefix(calls[m + 1].path, modifiedDir)

-----------------------------------------------------------------------------
(* Claims about the upload URL (checked under SpecUrl)                      *)

\* C6 as stated: the path of the URL the PUT is sent to ends in "/" and the
\* name of the archive, whatever OCI_PAR_URL holds; the name is appended when
\* the URL does not end in it and not repeated when it does, so deriving the
\* destination of a derived destination changes nothing.
C6_PutPathEndsWithArchive ==
    /\ \A n \in 1..Len(requests) :
         HasSuffix(requests[n].path, <<"/">> \o zipFileName)
    /\ DestinationURL(DestinationURL(parEnv, zipFileName), zipFileName)
         = DestinationURL(parEnv, zipFileName)

\* the number of times the name of the archive, after a "/", occurs in url
Occurrences(url) ==
    Cardinality({ n \in 1..Len(url) :
                    HasPrefix(SubSeq(url, n, Len(url)), <<"/">> \o zipFileName) })

\* What the derivation does give: the URL the PUT is sent to, as a string, ends in "/" and the
\* name of the archive (so does its path when OCI_PAR_URL has no "?"; with a
\* "?" the name lands at the end of the query); the name is appended when
\* OCI_PAR_URL does not end in it, after one trailing "/" is dropped, and
\* OCI_PAR_URL is used as it is when it does; deriving the destination of a
\* derived destination changes nothing.
PutUrlEndsWithArchive ==
    LET file == <<"/">> \o zipFileName
        derived == DestinationURL(parEnv, zipFileName)
    IN /\ \A n \in 1..Len(requests) :
            /\ requests[n].method = "PUT"
            /\ requests[n].url = derived
            /\ HasSuffix(requests[n].url, file)
            /\ IndexOf(parEnv, "?") = 0 => HasSuffix(requests[n].path, file)
       /\ HasSuffix(parEnv, file) => derived = parEnv
       /\ ~HasSuffix(parEnv, file) =>
            /\ Occurrences(derived) = Occurrences(parEnv) + 1
            /\ derived \in { parEnv \o file, SubSeq(parEnv, 1, Len(parEnv) - 1) \o file }
       /\ DestinationURL(derived, zipFileName) = derived

-----------------------------------------------------------------------------
(* Claims about ZipDirectory (checked under SpecZip)                        *)

\* the regular files under resources
SourceFiles == { p \in DOMAIN files : HasPrefix(p, TreeRoot) }

\* the path of p relative to resources
Relative(p) == SubSeq(p, Len(TreeRoot) + 1, Len(p))

====
